---- MODULE Spec2Model ----
(***************************************************************************)
(* A model of masserstein's Spectrum class (src/masserstein/spectrum.py).  *)
(*                                                                         *)
(* A peak ("conf") is a pair <<mass, prob>>; a peak list is a sequence of  *)
(* peaks.  Masses are integers (one unit = 1 m/z).  Intensities are        *)
(* integers counted in units of 1e-5, so the intensity 1.0 is One =        *)
(* 100000 units.  On that grid the prune threshold 1e-12 of merge_confs    *)
(* lies strictly between 0 and 1 unit, so "x > 1e-12" is "x > 0", and the  *)
(* tolerance of numpy.isclose(x, 1.) (atol 1e-8 + rtol 1e-5 * 1.) lies     *)
(* between 1 and 2 units, so "isclose(x, 1.)" is "|x - One| <= 1".         *)
(* Arithmetic is exact: floating-point rounding is not modelled.           *)
(*                                                                         *)
(* A Python call either returns or raises: the operators that model a      *)
(* method return a record [err, confs], err = "none" for a normal return   *)
(* and the exception's name otherwise, confs being the peak list the       *)
(* object holds at that moment.                                            *)
(***************************************************************************)
EXTENDS Integers, Sequences, FiniteSets, TLC

VARIABLES
    pc,            \* control state of the modelled caller / generator
    op,            \* name of the last operation that completed
    err,           \* "none", or the name of the exception the operation raised
    args,          \* the arguments of the operation (kept for the properties)
    selfConfs,     \* self.confs
    otherConfs,    \* other.confs
    before,        \* self.confs as it was when the last operation began
    res,           \* confs of the Spectrum the last operation returned
    ii,            \* WSDistanceMoves: cursor into other.confs
    idx,           \* WSDistanceMoves: position of the for loop in self.confs
    prob,          \* WSDistanceMoves: remaining intensity of the current self peak
    leftoverprob,  \* WSDistanceMoves: remaining intensity of the current other peak
    plan,          \* the moves WSDistanceMoves has yielded so far
    dist,          \* value returned by WSDistance
    prevDist,      \* value returned by the preceding WSDistance call, arguments swapped
    prevErr,       \* err of the preceding operation
    nops,          \* number of operations applied to self so far
    printed        \* WSDeconv's main: the messages printed so far

vars == <<pc, op, err, args, selfConfs, otherConfs, before, res,
          ii, idx, prob, leftoverprob, plan, dist, prevDist, prevErr, nops, printed>>

-----------------------------------------------------------------------------
(* Program constants, in the model's units.                                *)

\* The intensity 1.0 of "np.isclose(sum(...), 1.)", in units of 1e-5.
One == 100000

\* numpy.isclose's default tolerance around 1.0 (1e-8 + 1e-5), in whole units.
IsCloseTol == 1

\* The prune threshold 1e-12 of merge_confs, in whole units.
PruneThreshold == 0

\* The mass of the sentinel (-1, 0) that merge_confs appends to the peak list.
SentinelMass == -1

-----------------------------------------------------------------------------
(* Bounds of the model.                                                    *)

\* Largest mass of a raw peak list handed to set_confs.
MaxPos == 1

\* Longest raw peak list handed to set_confs.
MaxLen == 3

\* Largest intensity of a raw peak (the smallest is -MaxRawProb).
MaxRawProb == 2

-----------------------------------------------------------------------------
(* Generic helpers.                                                        *)

Abs(x) == IF x < 0 THEN -x ELSE x

Max(x, y) == IF x >= y THEN x ELSE y

Front(s) == SubSeq(s, 1, Len(s) - 1)

Last(s) == s[Len(s)]

\* sum(x[1] for x in confs)
RECURSIVE SumProbs(_)
SumProbs(confs) ==
    IF confs = <<>> THEN 0 ELSE confs[1][2] + SumProbs(Tail(confs))

\* All sequences over S of length at most n.
SeqsUpTo(S, n) == UNION {[1..k -> S] : k \in 0..n}

Ok(confs) == [err |-> "none", confs |-> confs]

Raise(e, confs) == [err |-> e, confs |-> confs]

-----------------------------------------------------------------------------
(* sort_confs and merge_confs.                                             *)

\* list.sort(key = lambda x: x[0]) is stable: c goes after every peak whose mass
\* is not larger.
RECURSIVE InsertByMass(_, _)
InsertByMass(sorted, c) ==
    IF sorted = <<>> THEN <<c>>
    ELSE IF Last(sorted)[1] <= c[1] THEN Append(sorted, c)
    ELSE Append(InsertByMass(Front(sorted), c), Last(sorted))

RECURSIVE SortConfs(_)
SortConfs(confs) ==
    IF confs = <<>> THEN <<>>
    ELSE InsertByMass(SortConfs(Front(confs)), Last(confs))

\* The sentinel that ends the loop of merge_confs.
Sentinel == <<SentinelMass, 0>>

\* The loop of merge_confs over the items not yet visited.
RECURSIVE MergeLoop(_, _, _, _)
MergeLoop(items, cmass, cprob, ret) ==
    IF items = <<>> THEN ret
    ELSE LET mass == items[1][1]
             p == items[1][2]
         IN  IF mass # cmass
             THEN MergeLoop(Tail(items), mass, 0 + p, Append(ret, <<cmass, cprob>>))
             ELSE MergeLoop(Tail(items), cmass, cprob + p, ret)

\* The filter of merge_confs: x[1] > 1e-12.
KeepPeak(x) == x[2] > PruneThreshold

\* merge_confs: self.confs[0][0] raises IndexError on an empty list.
MergeConfs(confs) ==
    IF confs = <<>> THEN Raise("IndexError", confs)
    ELSE Ok(SelectSeq(MergeLoop(confs \o <<Sentinel>>, confs[1][1], 0, <<>>), KeepPeak))

\* set_confs: assign, sort, merge.
SetConfs(confs) == MergeConfs(SortConfs(confs))

\* sort_confs followed by merge_confs on an existing object.
Canonicalize(confs) == MergeConfs(SortConfs(confs))

-----------------------------------------------------------------------------
(* Properties of peak lists.                                               *)

StrictlyIncreasing(confs) ==
    \A i \in 1..(Len(confs) - 1) : confs[i][1] < confs[i + 1][1]

NoPrunable(confs) == \A i \in 1..Len(confs) : confs[i][2] > PruneThreshold

IsCanonical(confs) == StrictlyIncreasing(confs) /\ NoPrunable(confs)

Masses(confs) == {confs[i][1] : i \in 1..Len(confs)}

\* Sum of the intensities of the peaks of confs at mass m.
RECURSIVE ProbAt(_, _)
ProbAt(confs, m) ==
    IF confs = <<>> THEN 0
    ELSE (IF confs[1][1] = m THEN confs[1][2] ELSE 0) + ProbAt(Tail(confs), m)

-----------------------------------------------------------------------------
(* Construction: Spectrum(confs = raw), Spectrum(), and re-canonicalization.*)

RawMasses == SentinelMass..MaxPos

RawProbs == (-MaxRawProb)..MaxRawProb

RawLists == SeqsUpTo(RawMasses \X RawProbs, MaxLen)

Idle ==
    /\ ii = 0 /\ idx = 0 /\ prob = 0 /\ leftoverprob = 0
    /\ plan = <<>> /\ dist = 0 /\ prevDist = 0
    /\ prevErr = "none" /\ nops = 0 /\ printed = <<>>

InitConstruct ==
    /\ pc = "new"
    /\ op = "none"
    /\ err = "none"
    /\ args \in RawLists
    /\ selfConfs = <<>>
    /\ otherConfs = <<>>
    /\ before = <<>>
    /\ res = <<>>
    /\ Idle

\* Spectrum(confs = args): __init__ calls set_confs(confs).
Construct ==
    /\ pc = "new"
    /\ LET r == SetConfs(args)
       IN  /\ selfConfs' = r.confs
           /\ err' = r.err
    /\ op' = "set_confs"
    /\ pc' = IF err' = "none" THEN "built" ELSE "failed"
    /\ UNCHANGED <<args, otherConfs, before, res,
                   ii, idx, prob, leftoverprob, plan, dist, prevDist, prevErr, nops, printed>>

\* Spectrum(): no formula and no confs, the empty spectrum.
ConstructEmpty ==
    /\ pc = "new"
    /\ args = <<>>
    /\ selfConfs' = <<>>
    /\ err' = "none"
    /\ op' = "Spectrum"
    /\ pc' = "built"
    /\ UNCHANGED <<args, otherConfs, before, res,
                   ii, idx, prob, leftoverprob, plan, dist, prevDist, prevErr, nops, printed>>

\* sort_confs(); merge_confs() on a constructed spectrum.
Recanonicalize ==
    /\ pc = "built"
    /\ before' = selfConfs
    /\ LET r == Canonicalize(selfConfs)
       IN  /\ selfConfs' = r.confs
           /\ err' = r.err
    /\ op' = "canonicalize"
    /\ pc' = "done"
    /\ UNCHANGED <<args, otherConfs, res,
                   ii, idx, prob, leftoverprob, plan, dist, prevDist, prevErr, nops, printed>>

NextConstruct == Construct \/ ConstructEmpty \/ Recanonicalize

SpecConstruct == InitConstruct /\ [][NextConstruct]_vars

-----------------------------------------------------------------------------
(* WSDistanceMoves and WSDistance.                                         *)
(*                                                                         *)
(* WSDistanceMoves is a generator; WSDistance consumes it to the end.  The *)
(* generator's body is modelled statement by statement: one action for its *)
(* first two lines, one for the head of the for loop, one for each yield.  *)
(* An IndexError raised inside the generator is caught by its own except   *)
(* clause and ends it normally.  ii counts from 0 as in the source.        *)

\* The peak list, by increasing mass, of the masses m with f[m] # 0.
ListOf(f, masses) ==
    LET present == {m \in masses : f[m] # 0}
        RECURSIVE Build(_)
        Build(S) ==
            IF S = {} THEN <<>>
            ELSE LET m == CHOOSE x \in S : \A y \in S : x <= y
                 IN  <<(<<m, f[m]>>)>> \o Build(S \ {m})
    IN  Build(present)

\* All peak lists with strictly increasing masses drawn from masses and
\* intensities drawn from probs.
MeasuresOver(masses, probs) ==
    {ListOf(f, masses) : f \in [masses -> probs \cup {0}]}

\* Largest mass of the spectra handed to WSDistance and WSDistanceMoves.
MaxWSPos == 2

Tenth == One \div 10

\* Intensities of the peaks of those spectra.
WSProbs == {1, 2 * Tenth, 3 * Tenth, 5 * Tenth, 7 * Tenth, One - 1, One}

\* The spectra handed to WSDistance: the empty one, and those whose total
\* intensity is within or just outside numpy.isclose's tolerance of 1.
WSInputs ==
    {m \in MeasuresOver(0..MaxWSPos, WSProbs) :
        m = <<>> \/ Abs(SumProbs(m) - One) <= IsCloseTol + 1}

\* A mutant of IsClose: the tolerance forgotten.
IsCloseExact(x) == x = One

\* np.isclose(x, 1.)
IsClose(x) == Abs(x - One) <= IsCloseTol

\* A mutant of MoveCost: the abs forgotten.
MoveCostSigned(x) == (x[1] - x[2]) * x[3]

\* abs(x[0]-x[1])*x[2]
MoveCost(x) == Abs(x[1] - x[2]) * x[3]

\* math.fsum(abs(x[0]-x[1])*x[2] for x in moves)
RECURSIVE MovesCost(_)
MovesCost(moves) ==
    IF moves = <<>> THEN 0 ELSE MoveCost(moves[1]) + MovesCost(Tail(moves))

\* A mutant of RemainingProb: the moved intensity is not taken off the peak.
RemainingProbKept(p, moved) == p

\* prob -= leftoverprob
RemainingProb(p, moved) == p - moved

\* A mutant of RemainingLeftover: the leftover is set to the moved intensity.
RemainingLeftoverMoved(left, moved) == moved

\* A mutant of RemainingLeftover: the moved intensity is not taken off.
RemainingLeftoverKept(left, moved) == left

\* leftoverprob -= prob
RemainingLeftover(left, moved) == left - moved

InitWS ==
    /\ pc = "ready"
    /\ op = "none"
    /\ err = "none"
    /\ args = <<>>
    /\ selfConfs \in WSInputs
    /\ otherConfs \in WSInputs
    /\ before = <<>>
    /\ res = <<>>
    /\ Idle

GenReset ==
    /\ ii' = 0 /\ idx' = 0 /\ prob' = 0 /\ leftoverprob' = 0 /\ plan' = <<>>

\* self.WSDistance(other), up to the first pull on the generator: the two
\* normalization checks, self first.
CallWSDistance ==
    /\ pc = "ready"
    /\ op' = "WSDistance"
    /\ args' = <<"WSDistance">>
    /\ GenReset
    /\ IF ~IsClose(SumProbs(selfConfs))
       THEN err' = "ValueError: Self is not normalized." /\ pc' = "done"
       ELSE IF ~IsClose(SumProbs(otherConfs))
       THEN err' = "ValueError: Other is not normalized." /\ pc' = "done"
       ELSE err' = "none" /\ pc' = "gen_start"
    /\ UNCHANGED <<selfConfs, otherConfs, before, res, dist, prevDist, prevErr, nops, printed>>

\* list(self.WSDistanceMoves(other)): the generator consumed by a caller that
\* makes no check of its own.
CallWSDistanceMoves ==
    /\ pc = "ready"
    /\ op' = "WSDistanceMoves"
    /\ args' = <<"WSDistanceMoves">>
    /\ GenReset
    /\ err' = "none"
    /\ pc' = "gen_start"
    /\ UNCHANGED <<selfConfs, otherConfs, before, res, dist, prevDist, prevErr, nops, printed>>

\* ii = 0; leftoverprob = other.confs[0][1]
GenStart ==
    /\ pc = "gen_start"
    /\ ii' = 0
    /\ IF otherConfs = <<>>
       THEN pc' = "gen_end" /\ UNCHANGED <<leftoverprob, idx>>
       ELSE leftoverprob' = otherConfs[1][2] /\ idx' = 1 /\ pc' = "for"
    /\ UNCHANGED <<op, err, args, selfConfs, otherConfs, before, res,
                   prob, plan, dist, prevDist, prevErr, nops, printed>>

\* for mass, prob in self.confs:
ForNext ==
    /\ pc = "for"
    /\ IF idx > Len(selfConfs)
       THEN pc' = "gen_end" /\ UNCHANGED prob
       ELSE prob' = selfConfs[idx][2] /\ pc' = "while"
    /\ UNCHANGED <<op, err, args, selfConfs, otherConfs, before, res,
                   ii, idx, leftoverprob, plan, dist, prevDist, prevErr, nops, printed>>

\* A mutant of MoveLeftover: "ii += 1" forgotten, other's peak is read again.
MoveLeftoverNoAdvance ==
    /\ pc = "while"
    /\ leftoverprob <= prob
    /\ plan' = Append(plan, <<otherConfs[ii + 1][1], selfConfs[idx][1], leftoverprob>>)
    /\ prob' = RemainingProb(prob, leftoverprob)
    /\ leftoverprob' = otherConfs[ii + 1][2]
    /\ pc' = "while"
    /\ UNCHANGED <<op, err, args, selfConfs, otherConfs, before, res,
                   ii, idx, dist, prevDist, prevErr, nops, printed>>

\* The body of "while leftoverprob <= prob": the whole leftover of other's
\* peak moves; the next peak of other is read, which raises IndexError at
\* the end of other.confs.
MoveLeftover ==
    /\ pc = "while"
    /\ leftoverprob <= prob
    /\ plan' = Append(plan, <<otherConfs[ii + 1][1], selfConfs[idx][1], leftoverprob>>)
    /\ prob' = RemainingProb(prob, leftoverprob)
    /\ ii' = ii + 1
    /\ IF ii' + 1 > Len(otherConfs)
       THEN pc' = "gen_end" /\ UNCHANGED leftoverprob
       ELSE leftoverprob' = otherConfs[ii' + 1][2] /\ pc' = "while"
    /\ UNCHANGED <<op, err, args, selfConfs, otherConfs, before, res,
                   idx, dist, prevDist, prevErr, nops, printed>>

\* A mutant of MoveProb: the for loop stays on the same peak of self.
MoveProbNoAdvance ==
    /\ pc = "while"
    /\ ~(leftoverprob <= prob)
    /\ plan' = Append(plan, <<otherConfs[ii + 1][1], selfConfs[idx][1], prob>>)
    /\ leftoverprob' = RemainingLeftover(leftoverprob, prob)
    /\ pc' = "for"
    /\ UNCHANGED <<op, err, args, selfConfs, otherConfs, before, res,
                   ii, idx, prob, dist, prevDist, prevErr, nops, printed>>

\* After the while loop: the rest of self's peak moves.
MoveProb ==
    /\ pc = "while"
    /\ ~(leftoverprob <= prob)
    /\ plan' = Append(plan, <<otherConfs[ii + 1][1], selfConfs[idx][1], prob>>)
    /\ leftoverprob' = RemainingLeftover(leftoverprob, prob)
    /\ idx' = idx + 1
    /\ pc' = "for"
    /\ UNCHANGED <<op, err, args, selfConfs, otherConfs, before, res,
                   ii, prob, dist, prevDist, prevErr, nops, printed>>

\* The generator is exhausted: WSDistance returns the fsum of the costs.
GenEnd ==
    /\ pc = "gen_end"
    /\ dist' = IF op = "WSDistance" THEN MovesCost(plan) ELSE dist
    /\ pc' = "done"
    /\ UNCHANGED <<op, err, args, selfConfs, otherConfs, before, res,
                   ii, idx, prob, leftoverprob, plan, prevDist, prevErr, nops, printed>>

\* other.WSDistance(self), after self.WSDistance(other) returned a distance.
CallWSDistanceSwapped ==
    /\ pc = "done"
    /\ op = "WSDistance"
    /\ err = "none"
    /\ args = <<"WSDistance">>
    /\ selfConfs' = otherConfs
    /\ otherConfs' = selfConfs
    /\ prevDist' = dist
    /\ prevErr' = err
    /\ dist' = 0
    /\ args' = <<"WSDistance", "WSDistance">>
    /\ GenReset
    /\ IF ~IsClose(SumProbs(selfConfs'))
       THEN err' = "ValueError: Self is not normalized." /\ pc' = "done"
       ELSE IF ~IsClose(SumProbs(otherConfs'))
       THEN err' = "ValueError: Other is not normalized." /\ pc' = "done"
       ELSE err' = "none" /\ pc' = "gen_start"
    /\ UNCHANGED <<op, before, res, nops, printed>>

NextWS ==
    \/ CallWSDistance
    \/ CallWSDistanceMoves
    \/ GenStart
    \/ ForNext
    \/ MoveLeftover
    \/ MoveProb
    \/ GenEnd
    \/ CallWSDistanceSwapped

SpecWS == InitWS /\ [][NextWS]_vars

-----------------------------------------------------------------------------
(* The operations on spectra, as functions of the peak lists.              *)

\* self + other: concatenate, sort, merge.
AddConfs(a, b) == MergeConfs(SortConfs(a \o b))

\* [(x[0], number*x[1]) for x in self.confs]
ScaledConfs(confs, number) ==
    [i \in 1..Len(confs) |-> <<confs[i][1], number * confs[i][2]>>]

\* self * number: set_confs of the scaled peaks.
MulConfs(confs, number) == SetConfs(ScaledConfs(confs, number))

\* The entry of the heap Q that heapq.heappop returns: the least tuple
\* ((mass, prob), spectre_no, conf_idx), compared lexicographically.
HeapLess(x, y) ==
    \/ x[1][1] < y[1][1]
    \/ x[1][1] = y[1][1] /\ x[1][2] < y[1][2]
    \/ x[1] = y[1] /\ x[2] < y[2]
    \/ x[1] = y[1] /\ x[2] = y[2] /\ x[3] < y[3]

HeapMin(Q) == CHOOSE x \in Q : \A y \in Q \ {x} : HeapLess(x, y)

\* The while loop of ScalarProduct; conf_idx counts from 0 as in the source.
RECURSIVE ScalarProductLoop(_, _, _, _)
ScalarProductLoop(Q, spectra, weights, ret) ==
    IF Q = {} THEN ret
    ELSE LET top == HeapMin(Q)
             conf == top[1]
             spectre_no == top[2]
             conf_idx == top[3] + 1
             out == Append(ret, <<conf[1], conf[2] * weights[spectre_no]>>)
             rest == Q \ {top}
         IN  IF conf_idx < Len(spectra[spectre_no])
             THEN ScalarProductLoop(
                      rest \cup {<<spectra[spectre_no][conf_idx + 1], spectre_no, conf_idx>>},
                      spectra, weights, out)
             ELSE ScalarProductLoop(rest, spectra, weights, out)

\* Spectrum.ScalarProduct(spectra, weights): spectra[i].confs[0] raises
\* IndexError for an empty spectrum; the merged list is not sorted again.
ScalarProduct(spectra, weights) ==
    IF \E i \in 1..Len(spectra) : spectra[i] = <<>>
    THEN Raise("IndexError", <<>>)
    ELSE MergeConfs(ScalarProductLoop({<<spectra[i][1], i, 0>> : i \in 1..Len(spectra)},
                                      spectra, weights, <<>>))

\* spectra[0]*weights[0] + ... + spectra[k-1]*weights[k-1], evaluated from the
\* left: acc is the sum so far, i the next term.
RECURSIVE PairwiseFrom(_, _, _, _)
PairwiseFrom(acc, spectra, weights, i) ==
    IF i > Len(spectra) THEN Ok(acc)
    ELSE LET term == MulConfs(spectra[i], weights[i])
         IN  IF term.err # "none" THEN Raise(term.err, <<>>)
             ELSE LET sum == AddConfs(acc, term.confs)
                  IN  IF sum.err # "none" THEN Raise(sum.err, <<>>)
                      ELSE PairwiseFrom(sum.confs, spectra, weights, i + 1)

PairwiseSum(spectra, weights) ==
    LET first == MulConfs(spectra[1], weights[1])
    IN  IF first.err # "none" THEN Raise(first.err, <<>>)
        ELSE PairwiseFrom(first.confs, spectra, weights, 2)

RECURSIVE Pow10(_)
Pow10(n) == IF n <= 0 THEN 1 ELSE 10 * Pow10(n - 1)

\* Python's round(x, nb_of_digits) on an integral mass: x itself for
\* nb_of_digits >= 0, else the nearest multiple of 10^-nb_of_digits, a tie going
\* to the even multiple.
Round(x, nb_of_digits) ==
    IF nb_of_digits >= 0 THEN x
    ELSE LET step == Pow10(-nb_of_digits)
             lo == step * (x \div step)
             r == x - lo
         IN  IF 2 * r < step THEN lo
             ELSE IF 2 * r > step THEN lo + step
             ELSE IF (lo \div step) % 2 = 0 THEN lo ELSE lo + step

\* coarse_bin: round the masses, then merge_confs (no sort).
CoarseBin(confs, nb_of_digits) ==
    MergeConfs([i \in 1..Len(confs) |->
                   <<Round(confs[i][1], nb_of_digits), confs[i][2]>>])

\* The charge a Spectrum gets by default.
DefaultCharge == 1

\* bin_to_nominal: zip(*self.confs) gives nothing to unpack for an empty list
\* (ValueError); else scale by the charge, round, scale back, sort, merge.
BinToNominal(confs, charge, nb_of_digits) ==
    IF confs = <<>> THEN Raise("ValueError", confs)
    ELSE MergeConfs(SortConfs([i \in 1..Len(confs) |->
             <<Round(confs[i][1] * charge, nb_of_digits) \div charge, confs[i][2]>>]))

\* distort_mz with the drawn shifts N: shift, sort, merge.
DistortMz(confs, N) ==
    MergeConfs(SortConfs([i \in 1..Len(confs) |-> <<confs[i][1] + N[i], confs[i][2]>>]))

\* add_gaussian_noise with the drawn intensities noised: keep those y > 0.
AddGaussianNoise(confs, noised) ==
    Ok(SelectSeq([i \in 1..Len(confs) |-> <<confs[i][1], noised[i]>>],
                 LAMBDA x : x[2] > 0))

\* peakSD^2 = N*sd^2*p + N*gain^2*p*(1-p) for intensity w = p * One, divided
\* by the positive N*p/One where N and w are positive: only its sign is used.
PeakVariance(w, N, gain, sd) ==
    IF N = 0 \/ w = 0 THEN 0 ELSE sd * sd * One + gain * gain * (One - w)

\* distort_intensity with the drawn deviations U (already times peakSD): the
\* new intensities are max(x + u, 0.), and the list is assigned as it is.
DistortIntensity(confs, N, gain, U) ==
    IF ~IsClose(SumProbs(confs)) THEN Raise("AssertionError", confs)
    ELSE Ok([i \in 1..Len(confs) |->
                <<confs[i][1], Max(N * gain * confs[i][2] + U[i], 0)>>])

\* list.sort(key = lambda x: x[1], reverse=True) is stable: c goes after every
\* peak whose intensity is not smaller.
RECURSIVE InsertByProbDesc(_, _)
InsertByProbDesc(sorted, c) ==
    IF sorted = <<>> THEN <<c>>
    ELSE IF Last(sorted)[2] >= c[2] THEN Append(sorted, c)
    ELSE Append(InsertByProbDesc(Front(sorted), c), Last(sorted))

RECURSIVE SortByProbDesc(_)
SortByProbDesc(confs) ==
    IF confs = <<>> THEN <<>>
    ELSE InsertByProbDesc(SortByProbDesc(Front(confs)), Last(confs))

\* A mutant of CutLoop: the loop stops when the threshold is reached, "<"
\* in the place of "<=".
RECURSIVE CutLoopStrict(_, _, _, _, _)
CutLoopStrict(confs, removed, num, den, total) ==
    IF Len(confs) > 0 /\ (removed + Last(confs)[2]) * den < num * total
    THEN CutLoopStrict(Front(confs), removed + Last(confs)[2], num, den, total)
    ELSE confs

\* The while loop of cut_smallest_peaks; the threshold removed_proportion * sum
\* is the fraction num/den of total.
RECURSIVE CutLoop(_, _, _, _, _)
CutLoop(confs, removed, num, den, total) ==
    IF Len(confs) > 0 /\ (removed + Last(confs)[2]) * den <= num * total
    THEN CutLoop(Front(confs), removed + Last(confs)[2], num, den, total)
    ELSE confs

\* cut_smallest_peaks(removed_proportion = num/den)
CutSmallestPeaks(confs, num, den) ==
    Ok(SortConfs(CutLoop(SortByProbDesc(confs), 0, num, den, SumProbs(confs))))

\* [i[0] for i in theoretical.confs]
MassList(confs) == [i \in 1..Len(confs) |-> confs[i][1]]

\* The inner while loop of filter_against_theoretical; index counts from 0.
RECURSIVE AdvanceIndex(_, _, _)
AdvanceIndex(index, theoretical_masses, mz) ==
    IF index + 1 < Len(theoretical_masses) /\ theoretical_masses[index + 2] < mz
    THEN AdvanceIndex(index + 1, theoretical_masses, mz)
    ELSE index

\* The for loop of filter_against_theoretical over the peaks not yet visited.
RECURSIVE FilterLoop(_, _, _, _, _)
FilterLoop(rest, theoretical_masses, margin, index, result_confs) ==
    IF rest = <<>> THEN Ok(result_confs)
    ELSE IF theoretical_masses = <<>> THEN Raise("IndexError", <<>>)
    ELSE LET mz == rest[1][1]
             j == AdvanceIndex(index, theoretical_masses, mz)
             keep == \/ Abs(mz - theoretical_masses[j + 1]) <= margin
                     \/ /\ j + 1 < Len(theoretical_masses)
                        /\ Abs(mz - theoretical_masses[j + 2]) <= margin
         IN  FilterLoop(Tail(rest), theoretical_masses, margin, j,
                        IF keep THEN Append(result_confs, rest[1]) ELSE result_confs)

RECURSIVE Concat(_)
Concat(lists) == IF lists = <<>> THEN <<>> ELSE lists[1] \o Concat(Tail(lists))

\* filter_against_theoretical(experimental, theoreticals, margin) for an
\* iterable of spectra: their peaks go through set_confs.
FilterAgainstTheoretical(experimental, theoreticals, margin) ==
    LET theoretical == SetConfs(Concat(theoreticals))
    IN  IF theoretical.err # "none" THEN Raise(theoretical.err, <<>>)
        ELSE FilterLoop(experimental, MassList(theoretical.confs), margin, 0, <<>>)

\* filter_against_theoretical with a single Spectrum: iterating over it raises
\* TypeError, and its confs are used as they are.
FilterAgainstOne(experimental, theoretical, margin) ==
    FilterLoop(experimental, MassList(theoretical), margin, 0, <<>>)

-----------------------------------------------------------------------------
(* A caller that applies the operations one after another to a spectrum.   *)
(* An operation that works in situ changes self.confs; after one that      *)
(* returns a new Spectrum the caller goes on with the returned spectrum.   *)
(* When an operation raises, self.confs is what the object held then.      *)

\* Largest mass of the spectra the operations start from.
MaxOpPos == 1

\* Number of operations applied in a row.
MaxOps == 2

\* Intensities of the peaks of those spectra.
OpProbs == {1, 5 * Tenth, One}

OpInputs == MeasuresOver(0..MaxOpPos, OpProbs)

\* Raw peak lists for a fresh set_confs.
OpRawLists == SeqsUpTo((0..MaxOpPos) \X {-1, 0, 1}, 2)

\* Parameters of the operations.
Factors == {-1, 0, 1, 2}

Digits == {0, -1}

Shifts == {-1, 0, 1}

IonCounts == {1, 2}

Gains == {1}

IonSDs == {0, 1}

Proportions == {<<0, 1>>, <<1, 2>>, <<1, 1>>}

Margins == {0, 1}

Init ==
    /\ pc = "ready"
    /\ op = "none"
    /\ err = "none"
    /\ args = <<>>
    /\ selfConfs \in OpInputs
    /\ otherConfs = <<>>
    /\ before = <<>>
    /\ res = <<>>
    /\ Idle

\* The state after an operation with outcome r.
Applied(name, r) ==
    /\ pc = "ready"
    /\ nops < MaxOps
    /\ selfConfs' = r.confs
    /\ err' = r.err
    /\ op' = name
    /\ nops' = nops + 1
    /\ UNCHANGED <<pc, args, otherConfs, before, res,
                   ii, idx, prob, leftoverprob, plan, dist, prevDist, prevErr, printed>>

\* A new Spectrum is returned, or the call raises and self stays as it is.
Returned(r) == IF r.err = "none" THEN r ELSE Raise(r.err, selfConfs)

\* self.set_confs(raw)
DoSetConfs == \E raw \in OpRawLists : Applied("set_confs", SetConfs(raw))

\* self + o
DoAdd == \E o \in OpInputs : Applied("__add__", Returned(AddConfs(selfConfs, o)))

\* self * number
DoMul == \E number \in Factors : Applied("__mul__", Returned(MulConfs(selfConfs, number)))

\* Spectrum.ScalarProduct([self, o], [w1, w2])
DoScalarProduct ==
    \E o \in OpInputs, w1, w2 \in Factors \ {-1} :
        Applied("ScalarProduct", Returned(ScalarProduct(<<selfConfs, o>>, <<w1, w2>>)))

\* self.coarse_bin(nb_of_digits)
DoCoarseBin ==
    \E d \in Digits :
        LET r == CoarseBin(selfConfs, d)
        IN  Applied("coarse_bin", r)

\* self.bin_to_nominal(nb_of_digits)
DoBinToNominal ==
    \E d \in Digits : Applied("bin_to_nominal", BinToNominal(selfConfs, DefaultCharge, d))

\* self.distort_mz(mean, sd), the shifts N drawn at random
DoDistortMz ==
    \E N \in [1..Len(selfConfs) -> Shifts] : Applied("distort_mz", DistortMz(selfConfs, N))

\* self.add_gaussian_noise(sd): each noised intensity is drawn at random
DoAddGaussianNoise ==
    \E dev \in [1..Len(selfConfs) -> {-1, 0, 1}] :
        Applied("add_gaussian_noise",
                AddGaussianNoise(selfConfs,
                    [i \in 1..Len(selfConfs) |->
                        IF dev[i] = -1 THEN 0 ELSE selfConfs[i][2] + dev[i]]))

\* self.distort_intensity(N, gain, sd): each deviation is a standard normal
\* draw times peakSD, so it is 0 where peakSD is; a negative variance (NaN)
\* is left out.
DoDistortIntensity ==
    \E N \in IonCounts, gain \in Gains, sd \in IonSDs :
        \E dev \in [1..Len(selfConfs) -> {-1, 0, 1}] :
            LET U == [i \in 1..Len(selfConfs) |->
                         dev[i] * (N * gain * selfConfs[i][2] + 1)]
            IN  /\ \A i \in 1..Len(selfConfs) :
                       /\ PeakVariance(selfConfs[i][2], N, gain, sd) >= 0
                       /\ PeakVariance(selfConfs[i][2], N, gain, sd) = 0 => U[i] = 0
                /\ Applied("distort_intensity", DistortIntensity(selfConfs, N, gain, U))

\* self.cut_smallest_peaks(removed_proportion)
DoCutSmallestPeaks ==
    \E p \in Proportions :
        Applied("cut_smallest_peaks", CutSmallestPeaks(selfConfs, p[1], p[2]))

\* Spectrum.filter_against_theoretical(self, theoreticals, margin)
DoFilter ==
    \E margin \in Margins :
        \/ \E ths \in SeqsUpTo(OpInputs, 2) :
               Applied("filter_against_theoretical",
                       Returned(FilterAgainstTheoretical(selfConfs, ths, margin)))
        \/ \E th \in OpInputs :
               Applied("filter_against_theoretical",
                       Returned(FilterAgainstOne(selfConfs, th, margin)))

Next ==
    \/ DoSetConfs
    \/ DoAdd
    \/ DoMul
    \/ DoScalarProduct
    \/ DoCoarseBin
    \/ DoBinToNominal
    \/ DoDistortMz
    \/ DoAddGaussianNoise
    \/ DoDistortIntensity
    \/ DoCutSmallestPeaks
    \/ DoFilter

Spec == Init /\ [][Next]_vars

-----------------------------------------------------------------------------
(* ScalarProduct against the iterated pairwise sum.                        *)

\* Largest number of spectra handed to ScalarProduct.
MaxK == 3

\* Largest mass of those spectra.
MaxSPPos == 1

\* Largest weight.
MaxSPWeight == 2

SPInputs == MeasuresOver(0..MaxSPPos, {1, 2})

InitSP ==
    /\ pc = "ready"
    /\ op = "none"
    /\ err = "none"
    /\ \E k \in 1..MaxK :
           args \in [spectra : [1..k -> SPInputs], weights : [1..k -> 0..MaxSPWeight]]
    /\ selfConfs = <<>>
    /\ otherConfs = <<>>
    /\ before = <<>>
    /\ res = <<>>
    /\ Idle

\* Spectrum.ScalarProduct(spectra, weights)
CallScalarProduct ==
    /\ pc = "ready"
    /\ LET r == ScalarProduct(args.spectra, args.weights)
       IN  res' = r.confs /\ err' = r.err
    /\ op' = "ScalarProduct"
    /\ pc' = "merged"
    /\ UNCHANGED <<args, selfConfs, otherConfs, before,
                   ii, idx, prob, leftoverprob, plan, dist, prevDist, prevErr, nops, printed>>

\* spectra[0]*weights[0] + ... + spectra[k-1]*weights[k-1] on the same input
CallPairwiseSum ==
    /\ pc = "merged"
    /\ prevErr' = err
    /\ LET r == PairwiseSum(args.spectra, args.weights)
       IN  selfConfs' = r.confs /\ err' = r.err
    /\ op' = "pairwise"
    /\ pc' = "done"
    /\ UNCHANGED <<args, otherConfs, before, res,
                   ii, idx, prob, leftoverprob, plan, dist, prevDist, nops, printed>>

NextSP == CallScalarProduct \/ CallPairwiseSum

SpecSP == InitSP /\ [][NextSP]_vars

-----------------------------------------------------------------------------
(* normalize.                                                              *)
(*                                                                         *)
(* x = target_value/fsum(...) is a quotient of floats; the model keeps the *)
(* arithmetic exact by handing normalize only the peak lists and targets   *)
(* for which every v[1]*target_value is a whole multiple of the total.     *)

\* Largest mass of the spectra handed to normalize.
MaxNormPos == 2

\* Largest intensity of their peaks.
MaxNormProb == 3

\* The peak lists normalize is called on: increasing masses, intensities >= 0
\* (distort_intensity leaves peaks of intensity 0 in the list).
NormInputs ==
    {s \in SeqsUpTo((0..MaxNormPos) \X (0..MaxNormProb), MaxNormPos + 1) :
        StrictlyIncreasing(s)}

\* Target values: the default 1.0 and a few others, of either sign.
NormTargets == {-6, 0, 6, 12, One}

\* A mutant of NormalizedProb: target_value forgotten, the default 1.0 used.
NormalizedProbDefault(w, target_value, total) == (w * One) \div total

\* v[1]*x, with x = target_value/total
NormalizedProb(w, target_value, total) == (w * target_value) \div total

\* v[1]*x is on the model's grid for every peak.
NormalizeExact(confs, target_value) ==
    \A i \in 1..Len(confs) : (confs[i][2] * target_value) % SumProbs(confs) = 0

\* A mutant of Normalize: a zero total is let through (numpy floats divide by
\* zero with a warning only) and every intensity is overwritten.
NormalizeUnguarded(confs, target_value) ==
    Ok([i \in 1..Len(confs) |-> <<confs[i][1], 0>>])

\* normalize(target_value): Python floats raise ZeroDivisionError on a zero
\* total, before self.confs is assigned.
Normalize(confs, target_value) ==
    LET total == SumProbs(confs)
    IN  IF total = 0 THEN Raise("ZeroDivisionError", confs)
        ELSE Ok([i \in 1..Len(confs) |->
                    <<confs[i][1], NormalizedProb(confs[i][2], target_value, total)>>])

InitNormalize ==
    /\ pc = "ready"
    /\ op = "none"
    /\ err = "none"
    /\ args = <<>>
    /\ selfConfs \in NormInputs
    /\ otherConfs = <<>>
    /\ before = <<>>
    /\ res = <<>>
    /\ Idle

\* self.normalize(target_value)
CallNormalize ==
    /\ pc = "ready"
    /\ \E target_value \in NormTargets :
           /\ SumProbs(selfConfs) # 0 => NormalizeExact(selfConfs, target_value)
           /\ args' = <<target_value>>
           /\ LET r == Normalize(selfConfs, target_value)
              IN  selfConfs' = r.confs /\ err' = r.err
    /\ before' = selfConfs
    /\ op' = "normalize"
    /\ pc' = "done"
    /\ UNCHANGED <<otherConfs, res, ii, idx, prob, leftoverprob, plan,
                   dist, prevDist, prevErr, nops, printed>>

NextNormalize == CallNormalize

SpecNormalize == InitNormalize /\ [][NextNormalize]_vars

-----------------------------------------------------------------------------
(* Scaling and subtraction: self * number, and self + other * (-1).        *)

\* self + other*(-1)
SubConfs(a, b) ==
    LET negated == MulConfs(b, -1)
    IN  IF negated.err # "none" THEN Raise(negated.err, <<>>)
        ELSE AddConfs(a, negated.confs)

InitScale ==
    /\ pc = "ready"
    /\ op = "none"
    /\ err = "none"
    /\ args = <<>>
    /\ selfConfs \in OpInputs
    /\ otherConfs \in OpInputs
    /\ before = <<>>
    /\ res = <<>>
    /\ Idle

\* res = self * number
CallMul ==
    /\ pc = "ready"
    /\ \E number \in Factors :
           /\ args' = <<number>>
           /\ LET r == MulConfs(selfConfs, number)
              IN  res' = r.confs /\ err' = r.err
    /\ op' = "mul"
    /\ pc' = "done"
    /\ UNCHANGED <<selfConfs, otherConfs, before, ii, idx, prob, leftoverprob,
                   plan, dist, prevDist, prevErr, nops, printed>>

\* res = self + other*(-1)
CallSub ==
    /\ pc = "ready"
    /\ args' = <<-1>>
    /\ LET r == SubConfs(selfConfs, otherConfs)
       IN  res' = r.confs /\ err' = r.err
    /\ op' = "sub"
    /\ pc' = "done"
    /\ UNCHANGED <<selfConfs, otherConfs, before, ii, idx, prob, leftoverprob,
                   plan, dist, prevDist, prevErr, nops, printed>>

NextScale == CallMul \/ CallSub

SpecScale == InitScale /\ [][NextScale]_vars

-----------------------------------------------------------------------------
(* cut_smallest_peaks.                                                     *)

\* Largest mass of the spectra handed to cut_smallest_peaks.
MaxCutPos == 3

\* Intensities of their peaks: 0.01, 0.04 and 0.95.
CutProbs == {One \div 100, 4 * (One \div 100), 95 * (One \div 100)}

CutInputs == MeasuresOver(1..MaxCutPos, CutProbs)

\* removed_proportion as a fraction <<num, den>>: 0, 0.05, 0.5 and 1.
CutProportions == {<<0, 1>>, <<1, 20>>, <<1, 2>>, <<1, 1>>}

InitCut ==
    /\ pc = "ready"
    /\ op = "none"
    /\ err = "none"
    /\ args = <<>>
    /\ selfConfs \in CutInputs
    /\ otherConfs = <<>>
    /\ before = <<>>
    /\ res = <<>>
    /\ Idle

\* self.cut_smallest_peaks(removed_proportion)
CallCutSmallestPeaks ==
    /\ pc = "ready"
    /\ \E removed_proportion \in CutProportions :
           /\ args' = removed_proportion
           /\ LET r == CutSmallestPeaks(selfConfs, removed_proportion[1],
                                        removed_proportion[2])
              IN  selfConfs' = r.confs /\ err' = r.err
    /\ before' = selfConfs
    /\ op' = "cut_smallest_peaks"
    /\ pc' = "done"
    /\ UNCHANGED <<otherConfs, res, ii, idx, prob, leftoverprob, plan,
                   dist, prevDist, prevErr, nops, printed>>

NextCut == CallCutSmallestPeaks

SpecCut == InitCut /\ [][NextCut]_vars

-----------------------------------------------------------------------------
(* filter_against_theoretical, called with an iterable of theoretical      *)
(* spectra.                                                                *)

\* Largest margin.
MaxMargin == 2

\* Masses of the experimental and theoretical peaks: those of the spec's
\* example multiplied by 10 (10, 10.1, 20, 49.9, 50), and one more.
FilterMasses == {100, 101, 103, 200, 499, 500}

FilterExperimentals == MeasuresOver(FilterMasses \ {103, 499}, {1, 2})

FilterTheoreticals == MeasuresOver(FilterMasses \ {200}, {1})

InitFilter ==
    /\ pc = "ready"
    /\ op = "none"
    /\ err = "none"
    /\ args = <<>>
    /\ selfConfs \in FilterExperimentals
    /\ otherConfs = <<>>
    /\ before = <<>>
    /\ res = <<>>
    /\ Idle

\* res = Spectrum.filter_against_theoretical(self, theoreticals, margin)
CallFilter ==
    /\ pc = "ready"
    /\ \E theoreticals \in SeqsUpTo(FilterTheoreticals, 2) \ {<<>>},
          margin \in 0..MaxMargin :
           /\ args' = [theoreticals |-> theoreticals, margin |-> margin]
           /\ LET r == FilterAgainstTheoretical(selfConfs, theoreticals, margin)
              IN  res' = r.confs /\ err' = r.err
    /\ op' = "filter_against_theoretical"
    /\ pc' = "done"
    /\ UNCHANGED <<selfConfs, otherConfs, before, ii, idx, prob, leftoverprob,
                   plan, dist, prevDist, prevErr, nops, printed>>

NextFilter == CallFilter

SpecFilter == InitFilter /\ [][NextFilter]_vars

-----------------------------------------------------------------------------
(* WSDeconv.py, main(): from the transport plan to the printed distance.   *)
(* fitted and denoised have been normalized; self is fitted and other is   *)
(* denoised while the plan is obtained, and the other way round while      *)
(* denoised.WSDistance(fitted) runs.                                       *)

\* The threshold 1e-06 on the intensity of a move, in whole units.
MoveThreshold == 0

\* Maximum transport distances (the option -t).
Penalties == {0, 1, 3}

\* The spectra main() holds after normalize(): total intensity 1.
MainInputs == {m \in WSInputs : SumProbs(m) = One}

\* "WARNING: Detected a large-distance mass transport ..."
MassWarning == "mass_warning"

\* [mv for mv in moves if mv[2] > 1e-06]
LargeMoves(moves) ==
    LET large(mv) == mv[3] > MoveThreshold IN SelectSeq(moves, large)

\* max(mvs, key=lambda x: abs(x[1]-x[0])): the first move of greatest distance.
MaxMove(mvs) ==
    LET key(x) == Abs(x[2] - x[1])
        i == CHOOSE j \in 1..Len(mvs) :
                 /\ \A k \in 1..Len(mvs) : key(mvs[k]) <= key(mvs[j])
                 /\ \A k \in 1..(j - 1) : key(mvs[k]) < key(mvs[j])
    IN  mvs[i]

InitMain ==
    /\ pc = "main"
    /\ op = "none"
    /\ err = "none"
    /\ args \in [penalty : Penalties]
    /\ selfConfs \in MainInputs
    /\ otherConfs \in MainInputs
    /\ before = <<>>
    /\ res = <<>>
    /\ Idle

\* fitted.WSDistanceMoves(denoised) is called and iterated over.
MainObtainPlan ==
    /\ pc = "main"
    /\ op' = "WSDistanceMoves"
    /\ GenReset
    /\ err' = "none"
    /\ pc' = "gen_start"
    /\ UNCHANGED <<args, selfConfs, otherConfs, before, res, dist, prevDist,
                   prevErr, nops, printed>>

\* mvs and max_mv are computed; the test of max_mv against penalty and the
\* print of mass_warning are commented out; denoised.WSDistance(fitted) is
\* called.
MainCallWSDistance ==
    /\ pc = "done"
    /\ op = "WSDistanceMoves"
    /\ LET mvs == LargeMoves(plan)
       IN  IF mvs = <<>>
           THEN /\ err' = "ValueError"
                /\ pc' = "exit"
                /\ UNCHANGED <<op, args, selfConfs, otherConfs, ii, idx, prob,
                               leftoverprob, plan>>
           ELSE /\ args' = [penalty |-> args.penalty, mvs |-> mvs,
                            max_mv |-> MaxMove(mvs)]
                /\ selfConfs' = otherConfs
                /\ otherConfs' = selfConfs
                /\ op' = "WSDistance"
                /\ GenReset
                /\ IF ~IsClose(SumProbs(selfConfs'))
                   THEN err' = "ValueError: Self is not normalized." /\ pc' = "exit"
                   ELSE IF ~IsClose(SumProbs(otherConfs'))
                   THEN err' = "ValueError: Other is not normalized." /\ pc' = "exit"
                   ELSE err' = "none" /\ pc' = "gen_start"
    /\ UNCHANGED <<before, res, dist, prevDist, prevErr, nops, printed>>

\* The distances are printed.
MainPrint ==
    /\ pc = "done"
    /\ op = "WSDistance"
    /\ printed' = printed \o <<"Optimal Wasserstein distance with denoising penalty",
                               "Optimal Wasserstein distance">>
    /\ pc' = "exit"
    /\ UNCHANGED <<op, err, args, selfConfs, otherConfs, before, res,
                   ii, idx, prob, leftoverprob, plan, dist, prevDist, prevErr, nops>>

NextMain ==
    \/ MainObtainPlan
    \/ GenStart
    \/ ForNext
    \/ MoveLeftover
    \/ MoveProb
    \/ GenEnd
    \/ MainCallWSDistance
    \/ MainPrint

SpecMain == InitMain /\ [][NextMain]_vars

-----------------------------------------------------------------------------
(* WSDistanceMoves on its own, on spectra of any totals.                   *)

\* Largest mass of the spectra handed to WSDistanceMoves.
MaxMovePos == 2

\* The spectra: increasing masses, intensities 0, 1 or 2 (the canonical
\* spectra are those without a peak of intensity 0).
MoveInputs ==
    {s \in SeqsUpTo((0..MaxMovePos) \X (0..2), MaxMovePos + 1) :
        StrictlyIncreasing(s)}

InitMoves ==
    /\ pc = "ready"
    /\ op = "none"
    /\ err = "none"
    /\ args = <<>>
    /\ selfConfs \in MoveInputs
    /\ otherConfs \in MoveInputs
    /\ before = <<>>
    /\ res = <<>>
    /\ Idle

NextMoves ==
    \/ CallWSDistanceMoves
    \/ GenStart
    \/ ForNext
    \/ MoveLeftover
    \/ MoveProb
    \/ GenEnd

SpecMoves == InitMoves /\ [][NextMoves]_vars

\* The consumer of the generator keeps pulling until it is exhausted.
SpecMovesFair == SpecMoves /\ WF_vars(NextMoves)

-----------------------------------------------------------------------------
(* Reference definitions for the transport properties.                     *)

\* Total intensity of the peaks of confs with mass <= x.
RECURSIVE CDF(_, _)
CDF(confs, x) ==
    IF confs = <<>> THEN 0
    ELSE (IF confs[1][1] <= x THEN confs[1][2] ELSE 0) + CDF(Tail(confs), x)

\* The Wasserstein-1 distance by the CDF formula: over the consecutive masses
\* s < t of the merged support, |CDF_a(s) - CDF_b(s)| * (t - s).
W1(a, b) ==
    LET support == Masses(a) \cup Masses(b)
        After(s) == CHOOSE t \in support : t > s /\ \A u \in support : u > s => t <= u
        RECURSIVE Sum(_)
        Sum(S) ==
            IF S = {} THEN 0
            ELSE LET s == CHOOSE x \in S : TRUE
                 IN  (IF \E t \in support : t > s
                      THEN Abs(CDF(a, s) - CDF(b, s)) * (After(s) - s)
                      ELSE 0) + Sum(S \ {s})
    IN  Sum(support)

\* Total intensity moved by a sequence of moves.
RECURSIVE MovesTotal(_)
MovesTotal(moves) ==
    IF moves = <<>> THEN 0 ELSE moves[1][3] + MovesTotal(Tail(moves))

\* Both spectra have total intensity exactly 1.
BothNormalized == SumProbs(selfConfs) = One /\ SumProbs(otherConfs) = One

\* self.WSDistance(other) has returned a distance.
DistanceReturned == pc = "done" /\ op = "WSDistance" /\ err = "none"

\* The generator has run to its end.
SweepFinished == pc = "done" /\ err = "none"

\* The spec's example, masses shifted by -100: A = [(0, 0.5), (1, 0.5)].
ExampleA == <<(<<0, 5 * Tenth>>), (<<1, 5 * Tenth>>)>>

\* B = [(0, 0.3), (1, 0.7)].
ExampleB == <<(<<0, 3 * Tenth>>), (<<1, 7 * Tenth>>)>>

(* C1: for spectra a, b with positive intensities and total intensity 1    *)
(* each, WSDistance(a, b) is the sum over the moves of WSDistanceMoves of   *)
(* |source - destination| * moved intensity, and that is the Wasserstein-1  *)
(* distance (the CDF formula); the example A, B gives 0.2.                  *)
C1_DistanceIsWasserstein ==
    (DistanceReturned /\ BothNormalized) =>
        /\ dist = MovesCost(plan)
        /\ dist = W1(selfConfs, otherConfs)
        /\ (selfConfs = ExampleA /\ otherConfs = ExampleB) => dist = 2 * Tenth

C1_Witness ==
    /\ DistanceReturned
    /\ selfConfs = ExampleA /\ otherConfs = ExampleB
    /\ dist = 2 * Tenth
    /\ Len(plan) = 3

(* C2: mass conservation: for two spectra of equal total intensity, the     *)
(* intensities of the moves produced by WSDistanceMoves sum to that total.  *)
C2_MassConservation ==
    (SweepFinished /\ SumProbs(selfConfs) = SumProbs(otherConfs)) =>
        MovesTotal(plan) = SumProbs(selfConfs)

C2_Witness ==
    /\ SweepFinished
    /\ op = "WSDistanceMoves"
    /\ SumProbs(selfConfs) = SumProbs(otherConfs)
    /\ SumProbs(selfConfs) # One
    /\ Len(selfConfs) = 3 /\ Len(otherConfs) = 2
    /\ MovesTotal(plan) = SumProbs(selfConfs)

C4_UnequalTotalsRaise ==
    (pc = "done" /\ op = "WSDistanceMoves"
        /\ SumProbs(selfConfs) # SumProbs(otherConfs)) => err # "none"

(* C9: distance symmetry and non-negativity: for spectra a, b of total      *)
(* intensity 1, WSDistance(a, b) = WSDistance(b, a) >= 0.                   *)
C9_DistanceSymmetric ==
    (DistanceReturned /\ BothNormalized) =>
        /\ dist >= 0
        /\ args = <<"WSDistance", "WSDistance">> => dist = prevDist

C9_Witness ==
    /\ DistanceReturned /\ BothNormalized
    /\ args = <<"WSDistance", "WSDistance">>
    /\ Len(selfConfs) # Len(otherConfs)
    /\ dist = prevDist /\ dist > 0

(* C10: for spectra a, b of total intensity 1, WSDistance(a, a) = 0, and    *)
(* WSDistance(a, b) = 0 only when a and b have the same peak list.          *)
C10_ZeroIffEqual ==
    (DistanceReturned /\ BothNormalized) =>
        /\ selfConfs = otherConfs => dist = 0
        /\ dist = 0 => selfConfs = otherConfs

C10_Witness ==
    /\ DistanceReturned /\ BothNormalized
    /\ selfConfs = otherConfs
    /\ Len(selfConfs) = 3
    /\ dist = 0

-----------------------------------------------------------------------------
(* C5: for any finite peak list (any order, repeated masses, intensities   *)
(* of either sign) set_confs produces a peak list with strictly increasing *)
(* masses in which every retained mass carries the sum of the input         *)
(* intensities at that mass, and a mass of the input is dropped exactly     *)
(* when the absolute value of its summed intensity is below the prune       *)
(* threshold.                                                               *)
C5_SetConfsSumsAndPrunesByAbs ==
    op = "set_confs" =>
        /\ err = "none"
        /\ StrictlyIncreasing(selfConfs)
        /\ \A i \in 1..Len(selfConfs) :
               selfConfs[i][2] = ProbAt(args, selfConfs[i][1])
        /\ \A m \in Masses(args) :
               (m \notin Masses(selfConfs)) <=> (Abs(ProbAt(args, m)) <= PruneThreshold)

(* C7: for every canonical peak list, the empty one included, sort_confs   *)
(* followed by merge_confs completes without error and leaves the peak     *)
(* list unchanged.                                                          *)
C7_RecanonicalizeIsNoOp ==
    (op = "canonicalize" /\ IsCanonical(before)) =>
        (err = "none" /\ selfConfs = before)

(* C6: starting from canonical spectra, after any sequence of the        *)
(* operations every resulting or mutated spectrum has strictly increasing   *)
(* masses and no peak whose intensity is zero or below the prune threshold. *)
C6_AlwaysCanonical == IsCanonical(selfConfs)

(* C8: for k canonical spectra and k nonnegative weights (zero weights and  *)
(* empty spectra included) ScalarProduct succeeds exactly when the iterated *)
(* pairwise sum spectra[0]*weights[0] + ... does, and gives the same peaks. *)
C8_ScalarProductIsPairwiseSum ==
    (pc = "done" /\ op = "pairwise") =>
        /\ prevErr = "none" <=> err = "none"
        /\ err = "none" => res = selfConfs

\* normalize has been applied to a peak list of nonzero total.
NormalizedNonzero == op = "normalize" /\ SumProbs(before) # 0

(* C11: normalize(target) on a spectrum of nonzero total intensity returns  *)
(* normally, leaves the masses and their order unchanged, multiplies every  *)
(* intensity by the same factor target/total, and makes the total target.   *)
C11_NormalizeScalesToTarget ==
    NormalizedNonzero =>
        /\ err = "none"
        /\ MassList(selfConfs) = MassList(before)
        /\ \A i \in 1..Len(before) :
               selfConfs[i][2] * SumProbs(before) = before[i][2] * args[1]
        /\ SumProbs(selfConfs) = args[1]

C11_Witness ==
    /\ NormalizedNonzero
    /\ Len(before) >= 2
    /\ SumProbs(before) # One
    /\ args[1] = One
    /\ selfConfs # before

(* C12: normalize on a spectrum of total intensity zero, the empty one      *)
(* included, raises an error and leaves the peak list as it was.            *)
C12_NormalizeZeroTotalFails ==
    (op = "normalize" /\ SumProbs(before) = 0) =>
        (err # "none" /\ selfConfs = before)

C12_Witness ==
    /\ op = "normalize"
    /\ before # <<>>
    /\ SumProbs(before) = 0
    /\ err = "ZeroDivisionError"

(* C13: self * number (number of either sign) returns a spectrum that has,  *)
(* at each mass of self, number times self's intensity there; and           *)
(* self + other*(-1) has at each mass p the intensity self(p) - other(p).   *)
C13_ScaleThenSubtract ==
    /\ op = "mul" =>
           /\ err = "none"
           /\ \A p \in Masses(selfConfs) :
                  ProbAt(res, p) = args[1] * ProbAt(selfConfs, p)
    /\ op = "sub" =>
           /\ err = "none"
           /\ \A p \in Masses(selfConfs) \cup Masses(otherConfs) :
                  ProbAt(res, p) = ProbAt(selfConfs, p) - ProbAt(otherConfs, p)

\* The peaks of a peak list, as a set.
PeakSet(confs) == {confs[i] : i \in 1..Len(confs)}

\* The spec's example: [(1, 0.01), (2, 0.04), (3, 0.95)].
CutExample ==
    <<(<<1, One \div 100>>), (<<2, 4 * (One \div 100)>>), (<<3, 95 * (One \div 100)>>)>>

\* cut_smallest_peaks has been applied to the example with proportion 0.05.
CutExampleDone ==
    op = "cut_smallest_peaks" /\ before = CutExample /\ args = <<1, 20>>

\* The general rule of C14: the peaks removed are smallest first, their total
\* does not exceed removed_proportion * total, removing any further peak
\* would exceed it, and the peaks that remain are in mass order.
CutRule ==
    op = "cut_smallest_peaks" =>
        LET kept == PeakSet(selfConfs)
            removed == PeakSet(before) \ kept
            cut == SumProbs(before) - SumProbs(selfConfs)
        IN  /\ err = "none"
            /\ StrictlyIncreasing(selfConfs)
            /\ kept \subseteq PeakSet(before)
            /\ \A r \in removed : \A k \in kept : r[2] <= k[2]
            /\ cut * args[2] <= args[1] * SumProbs(before)
            /\ \A k \in kept : (cut + k[2]) * args[2] > args[1] * SumProbs(before)

(* C14, as claimed: cut_smallest_peaks(p) removes peaks smallest first and  *)
(* stops before the removed total would exceed p * total, the rest staying  *)
(* in mass order; on [(1, 0.01), (2, 0.04), (3, 0.95)] with p = 0.05 exactly *)
(* the peak (1, 0.01) is removed.                                           *)
C14_ExampleRemovesOnePeak ==
    /\ CutRule
    /\ CutExampleDone => selfConfs = Tail(CutExample)

(* C14, amended: the same rule, a removed total equal to p * total not      *)
(* exceeding it; on the example with p = 0.05 the peaks (1, 0.01) and       *)
(* (2, 0.04) are both removed and only (3, 0.95) remains.                   *)
C14_ExampleRemovesTwoPeaks ==
    /\ CutRule
    /\ CutExampleDone => selfConfs = <<CutExample[3]>>

C14_Witness ==
    /\ CutExampleDone
    /\ err = "none"
    /\ selfConfs = <<CutExample[3]>>

\* The peaks of experimental within margin of some peak of some spectrum of
\* theoreticals, by comparing all pairs.
AllPairsFilter(experimental, theoreticals, margin) ==
    LET near(c) ==
            \E k \in 1..Len(theoreticals) : \E j \in 1..Len(theoreticals[k]) :
                Abs(c[1] - theoreticals[k][j][1]) <= margin
    IN  SelectSeq(experimental, near)

(* C15: for a canonical experimental spectrum, a nonempty collection of     *)
(* canonical theoretical spectra and a margin >= 0,                         *)
(* filter_against_theoretical returns exactly the experimental peaks,       *)
(* weights and order unchanged, that lie within margin of some theoretical  *)
(* peak: the sorted sweep agrees with the comparison of all pairs.          *)
C15_SweepIsAllPairs ==
    op = "filter_against_theoretical" =>
        /\ err = "none"
        /\ res = AllPairsFilter(selfConfs, args.theoreticals, args.margin)

\* Some move of the plan main() obtained goes farther than the threshold.
LargeDistanceMove ==
    \E i \in 1..Len(args.mvs) :
        Abs(args.mvs[i][2] - args.mvs[i][1]) > args.penalty

\* main() has printed its result.
MainReturned == pc = "exit" /\ err = "none"

(* C16: whenever some entry of the transport plan moves intensity across a  *)
(* distance larger than the configured threshold, the warning is reported   *)
(* together with the normal result; when no entry does, no warning is       *)
(* reported.                                                                *)
C16_WarningIffLargeMove ==
    MainReturned =>
        /\ \E i \in 1..Len(printed) : printed[i] = "Optimal Wasserstein distance"
        /\ (\E i \in 1..Len(printed) : printed[i] = MassWarning) <=> LargeDistanceMove

\* WSDistanceMoves runs, or has run, on two canonical spectra.
SweepOnCanonical ==
    pc # "ready" /\ IsCanonical(selfConfs) /\ IsCanonical(otherConfs)

\* An entry has just been yielded.
Yielded == Len(plan') = Len(plan) + 1

\* Total intensity of the moves whose component c (1: other, 2: self) is m.
RECURSIVE MovedAt(_, _, _)
MovedAt(moves, c, m) ==
    IF moves = <<>> THEN 0
    ELSE (IF moves[1][c] = m THEN moves[1][3] ELSE 0) + MovedAt(Tail(moves), c, m)

\* Every entry is (a mass of other, a mass of self, an intensity >= 0).
EntriesWellFormed ==
    \A i \in 1..Len(plan) :
        /\ plan[i][1] \in Masses(otherConfs)
        /\ plan[i][2] \in Masses(selfConfs)
        /\ plan[i][3] >= 0

\* The marginals of the finished plan are the two spectra.
MarginalsMatch ==
    /\ \A i \in 1..Len(otherConfs) :
           MovedAt(plan, 1, otherConfs[i][1]) = otherConfs[i][2]
    /\ \A i \in 1..Len(selfConfs) :
           MovedAt(plan, 2, selfConfs[i][1]) = selfConfs[i][2]

\* The entry just yielded carries min(leftoverprob, prob) as they were.
YieldsMin ==
    Yielded =>
        Last(plan')[3] = (IF leftoverprob <= prob THEN leftoverprob ELSE prob)

(* C17: for two canonical spectra of equal total intensity the plan of      *)
(* self.WSDistanceMoves(other) is a coupling: every entry is (a mass of     *)
(* other, a mass of self, an intensity >= 0), the intensity being the       *)
(* smaller of other's leftover and self's remaining intensity at that step, *)
(* and the entries at each peak of other, and at each peak of self, sum to  *)
(* that peak's intensity.                                                   *)
C17_PlanIsCoupling ==
    /\ []((SweepOnCanonical /\ SumProbs(selfConfs) = SumProbs(otherConfs)) =>
            /\ EntriesWellFormed
            /\ pc = "done" => MarginalsMatch)
    /\ [][(SweepOnCanonical /\ SumProbs(selfConfs) = SumProbs(otherConfs)) =>
            YieldsMin]_vars

C17_Witness ==
    /\ SweepOnCanonical
    /\ SumProbs(selfConfs) = SumProbs(otherConfs)
    /\ pc = "done"
    /\ Len(plan) = 3
    /\ Len(selfConfs) = 2
    /\ Len(otherConfs) = 2

\* Neither component decreases from an entry to the next.
PlanMonotone ==
    \A i \in 1..(Len(plan) - 1) :
        plan[i][1] <= plan[i + 1][1] /\ plan[i][2] <= plan[i + 1][2]

\* No two entries cross.
PlanNonCrossing ==
    \A i, j \in 1..Len(plan) :
        ~(plan[i][1] < plan[j][1] /\ plan[i][2] > plan[j][2])

\* Neither cursor moves backward, and a yield advances one of them.
CursorsAdvance ==
    /\ pc \in {"for", "while"} => (ii' >= ii /\ idx' >= idx)
    /\ Yielded => (ii' > ii \/ idx' > idx)

(* C18: on canonical spectra the entries of WSDistanceMoves come in sweep   *)
(* order: the masses of other and the masses of self never decrease from    *)
(* one entry to the next, neither cursor moves backward, every step that    *)
(* yields advances a cursor, and no two entries cross.                      *)
C18_MonotoneSweep ==
    /\ [](SweepOnCanonical => (PlanMonotone /\ PlanNonCrossing))
    /\ [][SweepOnCanonical => CursorsAdvance]_vars

C18_Witness ==
    /\ SweepOnCanonical
    /\ pc = "done"
    /\ Len(plan) = 3
    /\ plan[1][1] < plan[3][1]
    /\ plan[1][2] < plan[3][2]

\* The bound of C19 on the number of entries.
EntriesBounded ==
    IF selfConfs = <<>> \/ otherConfs = <<>> THEN plan = <<>>
    ELSE Len(plan) <= Len(selfConfs) + Len(otherConfs) - 1

(* C19: on any two spectra with intensities >= 0, of equal or unequal       *)
(* totals, empty or not, WSDistanceMoves terminates; it yields no entry     *)
(* when either spectrum is empty and otherwise at most                      *)
(* len(self) + len(other) - 1 entries.                                      *)
C19_SweepTerminates ==
    /\ <>(pc = "done")
    /\ [](pc # "ready" => EntriesBounded)

C19_Witness ==
    /\ pc = "done"
    /\ SumProbs(selfConfs) # SumProbs(otherConfs)
    /\ ~NoPrunable(otherConfs)
    /\ Len(selfConfs) = 2
    /\ Len(otherConfs) = 2
    /\ Len(plan) = 3

====
